---------------------------- MODULE Spec2Model ----------------------------
(***************************************************************************)
(* ComponentManager of piselfhosting_gui (src/component_manager.py): the   *)
(* in-memory map components_data, its validation rules, and the backing    *)
(* JSON document written through a side file and os.replace.               *)
(*                                                                         *)
(* Python values are tagged tuples, so that dict.get, truthiness,          *)
(* isinstance and == behave as in the interpreter:                         *)
(*   None = <<"none">>, True = <<"bool", TRUE>>, 80 = <<"int", 80>>,       *)
(*   "http" = <<"str", "http">>.                                           *)
(* A component id is the sequence of its characters, so that the regular   *)
(* expression of _validate_component_id is computed one character at a     *)
(* time.                                                                   *)
(***************************************************************************)
EXTENDS Integers, Sequences, FiniteSets, TLC

VARIABLES components_data, disk, tmp, up, faults, last, calls

vars == <<components_data, disk, tmp, up, faults, last, calls>>

(***************************************************************************)
(* Bounds                                                                  *)
(***************************************************************************)
\* number of failed or interrupted _save_data calls in one behaviour of SpecPersist
MaxFaults == 1

(***************************************************************************)
(* Python values                                                           *)
(***************************************************************************)
None == <<"none">>
PyStr(s) == <<"str", s>>
PyInt(n) == <<"int", n>>
PyBool(b) == <<"bool", b>>

\* bool(v): None, False, 0 and "" are falsy
Truthy(v) ==
  CASE v[1] = "none" -> FALSE
    [] v[1] = "bool" -> v[2]
    [] v[1] = "int" -> v[2] # 0
    [] v[1] = "str" -> v[2] # ""

\* isinstance(v, int): bool is a subclass of int
IsInstanceInt(v) == v[1] \in {"int", "bool"}

\* the numeric value of an int or bool (True is 1, False is 0)
Num(v) == IF v[1] = "bool" THEN (IF v[2] THEN 1 ELSE 0) ELSE v[2]

\* a == b on Python values: numbers compare by value across int and bool
PyEq(a, b) ==
  IF IsInstanceInt(a) /\ IsInstanceInt(b) THEN Num(a) = Num(b) ELSE a = b

\* d.get(k): None when the key is absent
Get(d, k) == IF k \in DOMAIN d THEN d[k] ELSE None

\* d[k] = v on a copy of d
Put(d, k, v) == [x \in DOMAIN d \cup {k} |-> IF x = k THEN v ELSE d[x]]

\* del d[k] on a copy of d
Del(d, k) == [x \in DOMAIN d \ {k} |-> d[x]]

EmptyMap == <<>>

(***************************************************************************)
(* Component ids and the pattern ^[a-z0-9-]+$                              *)
(***************************************************************************)
IdChar == {"a", "b", "z", "0", "9", "-"}

RECURSIVE AllIn(_, _)
AllIn(s, cs) == s = <<>> \/ (Head(s) \in cs /\ AllIn(Tail(s), cs))

\* the whole string is one or more characters of [a-z0-9-]
FullMatch(id) == id # <<>> /\ AllIn(id, IdChar)

\* re.match(r"^[a-z0-9-]+$", id): without re.MULTILINE, $ matches at the end
\* of the string and also just before a newline that ends the string
ReMatch(id) ==
  \/ FullMatch(id)
  \/ /\ Len(id) >= 2
     /\ id[Len(id)] = "\n"
     /\ FullMatch(SubSeq(id, 1, Len(id) - 1))

\* component_id_being_edited=None
NoEdit == <<"None">>

(***************************************************************************)
(* Errors raised as ValueError, by message                                 *)
(***************************************************************************)
Err(m, who) == [msg |-> m, about |-> who]

NoErr == Err("", <<>>)

\* the first error raised by a sequence of checks, each a set of the errors
\* it can raise (empty when it passes)
RECURSIVE FirstError(_)
FirstError(checks) ==
  IF checks = <<>> THEN {}
  ELSE IF Head(checks) # {} THEN Head(checks)
  ELSE FirstError(Tail(checks))

(***************************************************************************)
(* Validation                                                              *)
(***************************************************************************)
\* as _validate_component_id, without the check of line 60
_validate_component_id_overwrite(data, component_id, is_new) ==
  FirstError(<<
    IF component_id = <<>>
      THEN {Err("Component ID cannot be empty.", <<>>)} ELSE {},
    IF ~ReMatch(component_id)
      THEN {Err("Component ID can only contain lowercase letters, numbers, and hyphens.", <<>>)}
      ELSE {},
    IF ~is_new /\ component_id \notin DOMAIN data
      THEN {Err("does not exist.", component_id)} ELSE {} >>)

_validate_component_id(data, component_id, is_new) ==
  FirstError(<<
    IF component_id = <<>>
      THEN {Err("Component ID cannot be empty.", <<>>)} ELSE {},
    IF ~ReMatch(component_id)
      THEN {Err("Component ID can only contain lowercase letters, numbers, and hyphens.", <<>>)}
      ELSE {},
    IF is_new /\ component_id \in DOMAIN data
      THEN {Err("already exists.", component_id)} ELSE {},
    IF ~is_new /\ component_id \notin DOMAIN data
      THEN {Err("does not exist.", component_id)} ELSE {} >>)

\* as _validate_ui_port_uniqueness, without the skip of lines 72-73
_validate_ui_port_uniqueness_noskip(data, new_ui_port, component_id_being_edited) ==
  IF new_ui_port = None THEN {}
  ELSE { Err("UI port is already in use by component. Ports must be unique.", comp_id) :
           comp_id \in { c \in DOMAIN data :
                           /\ Truthy(Get(data[c], "has_ui"))
                           /\ PyEq(Get(data[c], "ui_port"), new_ui_port) } }

\* as _validate_ui_port_uniqueness, but checking only when no record is
\* being edited
_validate_ui_port_uniqueness_add(data, new_ui_port, component_id_being_edited) ==
  IF new_ui_port = None \/ component_id_being_edited # NoEdit THEN {}
  ELSE { Err("UI port is already in use by component. Ports must be unique.", comp_id) :
           comp_id \in { c \in DOMAIN data :
                           /\ Truthy(Get(data[c], "has_ui"))
                           /\ PyEq(Get(data[c], "ui_port"), new_ui_port) } }

\* the loop raises at the first conflicting record in dict order; the order
\* is not part of the model, so every conflicting record can be the one named
_validate_ui_port_uniqueness(data, new_ui_port, component_id_being_edited) ==
  IF new_ui_port = None THEN {}
  ELSE { Err("UI port is already in use by component. Ports must be unique.", comp_id) :
           comp_id \in { c \in DOMAIN data :
                           /\ c # component_id_being_edited
                           /\ Truthy(Get(data[c], "has_ui"))
                           /\ PyEq(Get(data[c], "ui_port"), new_ui_port) } }

\* as _validate_single_reverse_proxy, but looking only at records with a UI
_validate_single_reverse_proxy_ui(data, new_is_reverse_proxy_value, component_id_being_edited) ==
  IF ~Truthy(new_is_reverse_proxy_value) THEN {}
  ELSE { Err("is already selected as a reverse proxy. Maximum one reverse proxy allowed.", comp_id) :
           comp_id \in { c \in DOMAIN data :
                           /\ c # component_id_being_edited
                           /\ Truthy(Get(data[c], "has_ui"))
                           /\ Truthy(Get(data[c], "is_reverse_proxy")) } }

_validate_single_reverse_proxy(data, new_is_reverse_proxy_value, component_id_being_edited) ==
  IF ~Truthy(new_is_reverse_proxy_value) THEN {}
  ELSE { Err("is already selected as a reverse proxy. Maximum one reverse proxy allowed.", comp_id) :
           comp_id \in { c \in DOMAIN data :
                           /\ c # component_id_being_edited
                           /\ Truthy(Get(data[c], "is_reverse_proxy")) } }

MinPort == 1
MaxPort == 65535

_validate_dashy_tile_fields(component_data) ==
  IF ~Truthy(Get(component_data, "has_ui")) THEN {}
  ELSE FirstError(<<
    IF Get(component_data, "ui_port") = None
      THEN {Err("UI Port is required if 'Has Web Interface' is selected.", <<>>)} ELSE {},
    IF \/ ~IsInstanceInt(Get(component_data, "ui_port"))
       \/ ~(MinPort <= Num(component_data["ui_port"]) /\ Num(component_data["ui_port"]) <= MaxPort)
      THEN {Err("UI Port must be an integer between 1 and 65535.", <<>>)} ELSE {},
    IF ~Truthy(Get(component_data, "protocol"))
      THEN {Err("Protocol is required if 'Has Web Interface' is selected.", <<>>)} ELSE {},
    IF Get(component_data, "protocol") \notin {PyStr("http"), PyStr("https")}
      THEN {Err("Protocol must be 'http' or 'https'.", <<>>)} ELSE {},
    IF ~Truthy(Get(component_data, "icon"))
      THEN {Err("Icon is required if 'Has Web Interface' is selected.", <<>>)} ELSE {},
    IF ~Truthy(Get(component_data, "dashy_tile_section"))
      THEN {Err("Dashy Section is required if 'Has Web Interface' is selected.", <<>>)} ELSE {},
    IF Get(component_data, "dashy_tile_url_suffix") = None
      THEN {Err("Dashy URL Suffix is required if 'Has Web Interface' is selected.", <<>>)} ELSE {} >>)

\* the checks add_component and update_component share after the id check
\* (lines 121-138 and 149-158), with the id they exclude
FieldErrors(data, rec, component_id_being_edited) ==
  FirstError(<<
    IF Truthy(Get(rec, "has_ui"))
      THEN FirstError(<<
             _validate_ui_port_uniqueness(data, Get(rec, "ui_port"), component_id_being_edited),
             _validate_dashy_tile_fields(rec) >>)
      ELSE {},
    IF Truthy(Get(rec, "is_reverse_proxy"))
      THEN _validate_single_reverse_proxy(data, Get(rec, "is_reverse_proxy"),
                                          component_id_being_edited)
      ELSE {},
    IF ~Truthy(Get(rec, "name"))
      THEN {Err("Component name is required.", <<>>)} ELSE {} >>)


(***************************************************************************)
(* The backing document: json.dump and json.load                           *)
(***************************************************************************)
\* as EncodeValue, but writing None as the string "None"
EncodeValue_str(v) ==
  CASE v[1] = "none" -> <<"string", "None">>
    [] v[1] = "bool" -> IF v[2] THEN <<"true">> ELSE <<"false">>
    [] v[1] = "int" -> <<"number", v[2]>>
    [] v[1] = "str" -> <<"string", v[2]>>

\* a Python value as JSON text: null, true/false, a number, a quoted string
EncodeValue(v) ==
  CASE v[1] = "none" -> <<"null">>
    [] v[1] = "bool" -> IF v[2] THEN <<"true">> ELSE <<"false">>
    [] v[1] = "int" -> <<"number", v[2]>>
    [] v[1] = "str" -> <<"string", v[2]>>

DecodeValue(j) ==
  CASE j[1] = "null" -> None
    [] j[1] = "true" -> PyBool(TRUE)
    [] j[1] = "false" -> PyBool(FALSE)
    [] j[1] = "number" -> PyInt(j[2])
    [] j[1] = "string" -> PyStr(j[2])

\* an object key between quotes: a newline is written as the escape \n
EncodeKey(id) == [i \in 1..Len(id) |-> IF id[i] = "\n" THEN "\\n" ELSE id[i]]

DecodeKey(k) == [i \in 1..Len(k) |-> IF k[i] = "\\n" THEN "\n" ELSE k[i]]

\* json.dump(self.components_data, f, indent=2): the members of the object
json_dump(data) ==
  { <<EncodeKey(id), [k \in DOMAIN data[id] |-> EncodeValue(data[id][k])]>> :
      id \in DOMAIN data }

\* json.load(f) of a complete object
json_load(doc) ==
  [id \in {DecodeKey(m[1]) : m \in doc} |->
     LET m == CHOOSE m \in doc : DecodeKey(m[1]) = id
     IN  [k \in DOMAIN m[2] |-> DecodeValue(m[2][k])]]

\* the content of a path: no file, a text cut short, a complete document, or
\* a JSON text that is not an object, such as []
NoFile == [kind |-> "absent", doc |-> {}]
Truncated == [kind |-> "partial", doc |-> {}]
NotObject == [kind |-> "array", doc |-> {}]
Complete(doc) == [kind |-> "json", doc |-> doc]

\* as _load_data, without the isinstance test of line 26
_load_data_any(file, side) ==
  CASE file.kind = "absent" -> [ok |-> TRUE, data |-> EmptyMap]
    [] file.kind = "partial" -> [ok |-> FALSE, data |-> EmptyMap]
    [] file.kind = "array" -> [ok |-> TRUE, data |-> EmptyMap]
    [] file.kind = "json" -> [ok |-> TRUE, data |-> json_load(file.doc)]

\* _load_data reads self.filepath only
_load_data(file, side) ==
  CASE file.kind = "absent" -> [ok |-> TRUE, data |-> EmptyMap]
    [] file.kind = "partial" -> [ok |-> FALSE, data |-> EmptyMap]
    [] file.kind = "array" -> [ok |-> FALSE, data |-> EmptyMap]
    [] file.kind = "json" -> [ok |-> TRUE, data |-> json_load(file.doc)]

\* as _save_data, without the os.replace of line 42
_save_data_noreplace(data, d, t) ==
  LET new == Complete(json_dump(data))
  IN  { [disk |-> d, tmp |-> t, res |-> r] : r \in {"PersistError", "crash"} }
      \cup { [disk |-> d, tmp |-> Truncated, res |-> r] : r \in {"PersistError", "crash"} }
      \cup { [disk |-> d, tmp |-> new, res |-> r] : r \in {"ok", "crash"} }

\* as _save_data, but writing to self.filepath itself
_save_data_inplace(data, d, t) ==
  LET new == Complete(json_dump(data))
  IN  { [disk |-> d, tmp |-> t, res |-> r] : r \in {"PersistError", "crash"} }
      \cup { [disk |-> Truncated, tmp |-> t, res |-> r] : r \in {"PersistError", "crash"} }
      \cup { [disk |-> new, tmp |-> t, res |-> r] : r \in {"ok", "crash"} }

\* _save_data on canonical file d and side file t: every way it can end.
\* open() of the side file fails; the write stops part way; os.replace
\* fails; all succeed.  "crash" is the process dying at the same points.
_save_data(data, d, t) ==
  LET new == Complete(json_dump(data))
  IN  { [disk |-> d, tmp |-> t, res |-> r] : r \in {"PersistError", "crash"} }
      \cup { [disk |-> d, tmp |-> Truncated, res |-> r] : r \in {"PersistError", "crash"} }
      \cup { [disk |-> d, tmp |-> new, res |-> r] : r \in {"PersistError", "crash"} }
      \cup { [disk |-> new, tmp |-> NoFile, res |-> r] : r \in {"ok", "crash"} }

(***************************************************************************)
(* The handlers up to the call of _save_data: the error raised, if any,    *)
(* and the map as the handler leaves it                                    *)
(***************************************************************************)
\* as add_component_mem, but line 117 aliases the map instead of copying it,
\* so line 118 stores the record before the field checks run
add_component_mem_alias(data, component_id, rec) ==
  LET iderrs == _validate_component_id(data, component_id, TRUE)
      errs == FirstError(<< iderrs, FieldErrors(data, rec, NoEdit) >>)
  IN  [errs |-> errs,
       data |-> IF iderrs = {} THEN Put(data, component_id, rec) ELSE data]

add_component_mem(data, component_id, rec) ==
  LET errs == FirstError(<< _validate_component_id(data, component_id, TRUE),
                            FieldErrors(data, rec, NoEdit) >>)
  IN  [errs |-> errs,
       data |-> IF errs = {} THEN Put(data, component_id, rec) ELSE data]

\* as update_component_mem, but line 161 updates the stored dict with the new
\* fields instead of replacing it
update_component_mem_merge(data, component_id, rec) ==
  LET errs == FirstError(<< _validate_component_id(data, component_id, FALSE),
                            FieldErrors(data, rec, component_id) >>)
      old == data[component_id]
      merged == [k \in DOMAIN old \cup DOMAIN rec |->
                   IF k \in DOMAIN rec THEN rec[k] ELSE old[k]]
  IN  [errs |-> errs,
       data |-> IF errs = {} THEN Put(data, component_id, merged) ELSE data]

update_component_mem(data, component_id, rec) ==
  LET errs == FirstError(<< _validate_component_id(data, component_id, FALSE),
                            FieldErrors(data, rec, component_id) >>)
  IN  [errs |-> errs,
       data |-> IF errs = {} THEN Put(data, component_id, rec) ELSE data]

\* as delete_component_mem, but removing with pop(component_id, None)
delete_component_mem_pop(data, component_id) ==
  [errs |-> {}, data |-> Del(data, component_id)]

delete_component_mem(data, component_id) ==
  LET errs == IF component_id \notin DOMAIN data
                THEN {Err("not found for deletion.", component_id)} ELSE {}
  IN  [errs |-> errs,
       data |-> IF errs = {} THEN Del(data, component_id) ELSE data]

(***************************************************************************)
(* Inputs                                                                  *)
(***************************************************************************)
IdA == <<"a">>
IdB == <<"z", "-", "9">>
IdNl == <<"a", "\n">>
IdC == <<"b">>
Ids == {IdA, IdB, IdNl, <<>>, <<"A">>, <<"a", "_">>, <<"a", " ">>, <<"\n">>}

Absent == <<"absent">>

\* a dict from a row of fields, without the keys marked Absent
Prune(f) == [k \in {x \in DOMAIN f : f[x] # Absent} |-> f[k]]

UiRow(port, proxy) ==
  [name |-> PyStr("Nginx"), has_ui |-> PyBool(TRUE), is_reverse_proxy |-> PyBool(proxy),
   ui_port |-> port, protocol |-> PyStr("http"), icon |-> PyStr("nginx.png"),
   dashy_tile_section |-> PyStr("Infra"), dashy_tile_url_suffix |-> PyStr("")]

PlainRow(port, proxy) ==
  [name |-> PyStr("Nginx"), has_ui |-> PyBool(FALSE), is_reverse_proxy |-> PyBool(proxy),
   ui_port |-> port]

P80 == PyInt(80)

Rows ==
  { UiRow(p, x) : p \in {P80, PyInt(MaxPort)}, x \in BOOLEAN }
  \cup { PlainRow(p, x) : p \in {Absent, P80}, x \in BOOLEAN }
  \cup { UiRow(p, FALSE) : p \in {Absent, None, PyInt(MinPort - 1), PyInt(70000),
                                  PyStr("80"), PyBool(TRUE), PyInt(MinPort)} }
  \cup { [UiRow(P80, FALSE) EXCEPT !.protocol = v] : v \in {Absent, PyStr(""), PyStr("ftp")} }
  \cup { [UiRow(P80, FALSE) EXCEPT !.icon = v] : v \in {Absent, PyStr("")} }
  \cup { [UiRow(P80, FALSE) EXCEPT !.dashy_tile_section = v] : v \in {Absent, PyStr("")} }
  \cup { [UiRow(P80, FALSE) EXCEPT !.dashy_tile_url_suffix = v] : v \in {Absent, None} }
  \cup { [UiRow(P80, FALSE) EXCEPT !.name = v] : v \in {Absent, PyStr("")} }
  \cup { [PlainRow(Absent, FALSE) EXCEPT !.name = PyStr("")] }

Recs == { Prune(r) : r \in Rows }

(***************************************************************************)
(* State machine                                                           *)
(***************************************************************************)
\* the request threads of the server, and a thread that runs no handler
Threads == {"t1", "t2"}
Idle == [pc |-> "idle", fd |-> "none", id |-> <<>>, rec |-> EmptyMap]

Start(budget) ==
  /\ components_data = EmptyMap
  /\ disk = NoFile
  /\ tmp = NoFile
  /\ up = TRUE
  /\ faults = budget
  /\ calls = [t \in Threads |-> Idle]
  /\ last = [op |-> "init", id |-> <<>>, res |-> "ok", err |-> NoErr, kept |-> FALSE]

\* the outcome of a call as its caller sees it: the operation, its id, ok or
\* the error raised, and for an update whether the new record keeps the ui
\* port or the reverse-proxy flag of the record it replaces
Outcome(op, id, res, err, kept) ==
  [op |-> op, id |-> id, res |-> res, err |-> err, kept |-> kept]

\* the handler raises e before it calls _save_data
Raise(op, id, e, data) ==
  /\ components_data' = data
  /\ last' = Outcome(op, id, "ValidationError", e, FALSE)
  /\ UNCHANGED <<disk, tmp, up, faults, calls>>

\* the handler has assigned the map and calls _save_data
Commit(op, id, data, kept) ==
  \E o \in _save_data(data, disk, tmp) :
    /\ o.res = "ok" \/ faults > 0
    /\ faults' = IF o.res = "ok" THEN faults ELSE faults - 1
    /\ disk' = o.disk
    /\ tmp' = o.tmp
    /\ up' = (o.res # "crash")
    /\ components_data' = IF o.res = "crash" THEN EmptyMap ELSE data
    /\ last' = Outcome(op, id, o.res,
                       IF o.res = "PersistError" THEN Err("Error saving file", <<>>) ELSE NoErr,
                       kept)
    /\ UNCHANGED calls

\* rec has the ui port, or the reverse-proxy flag, of the record old
KeepsPort(old, rec) ==
  /\ Truthy(Get(old, "has_ui")) /\ Truthy(Get(rec, "has_ui"))
  /\ Get(rec, "ui_port") # None
  /\ PyEq(Get(old, "ui_port"), Get(rec, "ui_port"))

KeepsProxy(old, rec) ==
  Truthy(Get(old, "is_reverse_proxy")) /\ Truthy(Get(rec, "is_reverse_proxy"))

KeepsOwn(old, rec) == KeepsPort(old, rec) \/ KeepsProxy(old, rec)

add_component(component_id, rec) ==
  /\ up
  /\ LET m == add_component_mem(components_data, component_id, rec)
     IN  IF m.errs # {} THEN \E e \in m.errs : Raise("add", component_id, e, m.data)
         ELSE Commit("add", component_id, m.data, FALSE)

update_component(component_id, rec) ==
  /\ up
  /\ LET m == update_component_mem(components_data, component_id, rec)
     IN  IF m.errs # {} THEN \E e \in m.errs : Raise("update", component_id, e, m.data)
         ELSE Commit("update", component_id, m.data,
                     KeepsOwn(components_data[component_id], rec))

delete_component(component_id) ==
  /\ up
  /\ LET m == delete_component_mem(components_data, component_id)
     IN  IF m.errs # {} THEN \E e \in m.errs : Raise("delete", component_id, e, m.data)
         ELSE Commit("delete", component_id, m.data, FALSE)

\* the process starts again after it died: ComponentManager(filepath)
Restart ==
  /\ ~up
  /\ LET l == _load_data(disk, tmp)
     IN  /\ up' = l.ok
         /\ components_data' = l.data
         /\ last' = Outcome("load", <<>>, IF l.ok THEN "ok" ELSE "LoadError", NoErr, FALSE)
  /\ UNCHANGED <<disk, tmp, faults, calls>>

Mutate(ids, recs) ==
  \/ \E id \in ids, rec \in recs : add_component(id, rec)
  \/ \E id \in ids, rec \in recs : update_component(id, rec)
  \/ \E id \in ids : delete_component(id)

\* validation: two valid ids and the empty one, every record, no write fails
MainIds == {IdA, IdB, <<>>}
Init == Start(0)
Next == Mutate(MainIds, Recs)
Spec == Init /\ [][Next]_vars

\* identifiers: every id, three records, no write fails
IdRecs == { Prune(r) : r \in { UiRow(P80, FALSE), PlainRow(Absent, FALSE),
                               PlainRow(None, TRUE) } }
InitIds == Start(0)
NextIds == Mutate(Ids, IdRecs)
SpecIds == InitIds /\ [][NextIds]_vars

\* persistence: writes fail and the process dies, up to MaxFaults times
PersistRecs == { Prune(r) : r \in { UiRow(P80, FALSE), PlainRow(None, TRUE),
                                    [PlainRow(Absent, FALSE) EXCEPT !.name = PyStr("")] } }
PersistIds == {IdA, IdNl}
InitPersist == Start(MaxFaults)
NextPersist == Mutate(PersistIds, PersistRecs) \/ Restart
SpecPersist == InitPersist /\ [][NextPersist]_vars

\* What a caller holds after a call of the store: a reference to the map
\* object itself, or to the dict stored under an id.
MapRef == [obj |-> "map", id |-> <<>>]
RecordRef(id) == [obj |-> "record", id |-> id]

\* get_all_components returns self.components_data, get_component the dict
\* stored under the id, and add_component and update_component store the
\* dict they were given
get_all_components == MapRef
get_component(component_id) == RecordRef(component_id)
stored_object(component_id) == RecordRef(component_id)

\* the map after the caller has run ref[k] = v
SetItem(data, ref, k, v) ==
  CASE ref.obj = "map" -> Put(data, k, v)
    [] ref.obj = "record" -> [data EXCEPT ![ref.id] = Put(@, k, v)]

\* the caller assigns through a reference; the store runs no code
CallerSets(ref, k, v) ==
  /\ up
  /\ components_data' = SetItem(components_data, ref, k, v)
  /\ last' = Outcome("caller", ref.id, "ok", NoErr, FALSE)
  /\ UNCHANGED <<disk, tmp, up, faults, calls>>

\* manager.get_all_components()[id] = rec
WriteReturnedMap(component_id, rec) == CallerSets(get_all_components, component_id, rec)

\* manager.get_component(id)[k] = v
WriteReturnedRecord(component_id, k, v) ==
  /\ component_id \in DOMAIN components_data
  /\ CallerSets(get_component(component_id), k, v)

\* d[k] = v after manager.add_component(id, d) or update_component(id, d)
WritePassedRecord(k, v) ==
  /\ last.op \in {"add", "update"} /\ last.res = "ok"
  /\ CallerSets(stored_object(last.id), k, v)

\* references: a caller keeps what the store returned or was given, and
\* assigns through it; one valid id and one that is not, no write fails
AliasIds == {IdA, <<"A">>}
AliasRecs == { Prune(r) : r \in { UiRow(P80, FALSE), PlainRow(Absent, TRUE) } }
AliasFields == { <<"name", PyStr("")>>, <<"is_reverse_proxy", PyBool(TRUE)>> }
InitAlias == Start(0)
NextAlias ==
  \/ Mutate(AliasIds, AliasRecs)
  \/ \E id \in AliasIds, rec \in AliasRecs : WriteReturnedMap(id, rec)
  \/ \E id \in AliasIds, f \in AliasFields : WriteReturnedRecord(id, f[1], f[2])
  \/ \E f \in AliasFields : WritePassedRecord(f[1], f[2])
SpecAlias == InitAlias /\ [][NextAlias]_vars

\* add_component run by request thread t, one step per statement that
\* another thread can see or disturb.  Nothing in ComponentManager takes a
\* lock.  The checks of lines 113 to 138 are taken as one step.
InCall(t, pc, fd) == [calls EXCEPT ![t] = [@ EXCEPT !.pc = pc, !.fd = fd]]

\* lines 111-138: the checks, against the map as it is now
thread_validate(t, component_id, rec) ==
  /\ up /\ calls[t].pc = "idle"
  /\ LET m == add_component_mem(components_data, component_id, rec)
     IN  IF m.errs # {}
           THEN /\ \E e \in m.errs :
                     last' = Outcome("add", component_id, "ValidationError", e, FALSE)
                /\ calls' = calls
           ELSE /\ last' = last
                /\ calls' = [calls EXCEPT ![t] = [pc |-> "validated", fd |-> "none",
                                                  id |-> component_id, rec |-> rec]]
  /\ UNCHANGED <<components_data, disk, tmp, up, faults>>

\* line 141: self.components_data[component_id] = data
thread_assign(t) ==
  /\ calls[t].pc = "validated"
  /\ components_data' = Put(components_data, calls[t].id, calls[t].rec)
  /\ calls' = InCall(t, "assigned", "none")
  /\ UNCHANGED <<disk, tmp, up, faults, last>>

\* line 40: open(temp_filepath, 'w') creates the side file or empties the one
\* that is there; the handle stays with that file wherever it is renamed to
thread_open(t) ==
  /\ calls[t].pc = "assigned"
  /\ tmp' = Truncated
  /\ calls' = InCall(t, "opened", "side")
  /\ UNCHANGED <<components_data, disk, up, faults, last>>

\* what a file holds after json.dump through a handle opened at offset 0:
\* the document, or, when the file is no longer empty because another
\* handle wrote to it, possibly a mix of both texts
Written(file, data) ==
  {Complete(json_dump(data))} \cup (IF file.kind = "json" THEN {Truncated} ELSE {})

\* line 41: json.dump(self.components_data, f), then the with block closes f
thread_write(t) ==
  /\ calls[t].pc = "opened"
  /\ CASE calls[t].fd = "side" ->
            /\ tmp' \in Written(tmp, components_data)
            /\ disk' = disk
       [] calls[t].fd = "canonical" ->
            /\ disk' \in Written(disk, components_data)
            /\ tmp' = tmp
       [] OTHER -> UNCHANGED <<disk, tmp>>
  /\ calls' = InCall(t, "written", "none")
  /\ UNCHANGED <<components_data, up, faults, last>>

\* line 42: os.replace(temp_filepath, self.filepath); a handle another thread
\* has on the side file now is a handle on the canonical file, and a handle
\* on the canonical file one on a file with no name.  With no side file
\* os.replace raises, and line 44 turns that into the save error.
thread_replace(t) ==
  /\ calls[t].pc = "written"
  /\ IF tmp = NoFile
       THEN /\ last' = Outcome("add", calls[t].id, "PersistError",
                               Err("Error saving file", <<>>), FALSE)
            /\ calls' = [calls EXCEPT ![t] = Idle]
            /\ UNCHANGED <<disk, tmp>>
       ELSE /\ disk' = tmp
            /\ tmp' = NoFile
            /\ last' = Outcome("add", calls[t].id, "ok", NoErr, FALSE)
            /\ calls' = [u \in Threads |->
                           IF u = t THEN Idle
                           ELSE [calls[u] EXCEPT !.fd =
                                   CASE @ = "side" -> "canonical"
                                     [] @ = "canonical" -> "unlinked"
                                     [] OTHER -> @]]
  /\ UNCHANGED <<components_data, up, faults>>

\* threads: two request threads in add_component, two ids, two records that
\* are both the reverse proxy and one of which has a UI; no disk failure
ThreadRecs == { Prune(r) : r \in { UiRow(P80, TRUE), PlainRow(Absent, TRUE) } }
ThreadIds == {IdA, IdC}
InitThreads == Start(0)
NextThreads ==
  \E t \in Threads :
    \/ \E id \in ThreadIds, rec \in ThreadRecs : thread_validate(t, id, rec)
    \/ thread_assign(t)
    \/ thread_open(t)
    \/ thread_write(t)
    \/ thread_replace(t)
SpecThreads == InitThreads /\ [][NextThreads]_vars

\* order of the checks: every id, and records that break several rules at
\* once next to the three valid ones; no write fails
MultiRows ==
  { [UiRow(P80, TRUE) EXCEPT !.name = PyStr(""), !.protocol = PyStr("ftp"), !.icon = PyStr("")],
    [UiRow(None, TRUE) EXCEPT !.name = Absent, !.protocol = Absent],
    [UiRow(PyInt(MinPort - 1), TRUE) EXCEPT !.dashy_tile_section = PyStr(""),
                                            !.dashy_tile_url_suffix = None],
    [UiRow(P80, FALSE) EXCEPT !.icon = Absent, !.dashy_tile_section = Absent, !.name = PyStr("")],
    [PlainRow(P80, TRUE) EXCEPT !.name = PyStr("")],
    [PlainRow(Absent, TRUE) EXCEPT !.name = Absent, !.has_ui = Absent] }
OrderRecs == IdRecs \cup { Prune(r) : r \in MultiRows }
InitOrder == Start(0)
NextOrder == Mutate(Ids, OrderRecs)
SpecOrder == InitOrder /\ [][NextOrder]_vars

\* loading: the process starts on a backing document that something else
\* wrote, then serves calls; no write fails
Map2(a, ra, b, rb) == Put(Put(EmptyMap, a, ra), b, rb)
LoadMaps ==
  { EmptyMap,
    Put(EmptyMap, IdA, Prune(UiRow(P80, TRUE))),
    Map2(IdA, Prune(PlainRow(Absent, TRUE)), IdB, Prune(PlainRow(Absent, TRUE))),
    Map2(IdA, Prune(UiRow(P80, FALSE)), IdB, Prune(UiRow(P80, FALSE))),
    Put(EmptyMap, IdB, [has_ui |-> PyBool(TRUE)]),
    Put(EmptyMap, <<"A">>, Prune(PlainRow(Absent, FALSE))) }
LoadDocs == {NoFile, Truncated, NotObject} \cup { Complete(json_dump(m)) : m \in LoadMaps }
LoadIds == {IdA, IdC}
LoadRecs == { Prune(r) : r \in { UiRow(P80, FALSE), PlainRow(Absent, TRUE),
                                 PlainRow(Absent, FALSE) } }
InitLoad ==
  /\ components_data = EmptyMap
  /\ disk \in LoadDocs
  /\ tmp = NoFile
  /\ up = FALSE
  /\ faults = 0
  /\ calls = [t \in Threads |-> Idle]
  /\ last = Outcome("init", <<>>, "ok", NoErr, FALSE)
NextLoad == Mutate(LoadIds, LoadRecs) \/ Restart
SpecLoad == InitLoad /\ [][NextLoad]_vars

(***************************************************************************)
(* The rules of the specification, stated on records and maps              *)
(***************************************************************************)
HasUi(r) == Truthy(Get(r, "has_ui"))
IsProxy(r) == Truthy(Get(r, "is_reverse_proxy"))
NameOk(r) == Get(r, "name")[1] = "str" /\ Get(r, "name")[2] # ""

\* another record than self with a UI on the port of rec
PortClash(data, rec, self) ==
  /\ HasUi(rec)
  /\ Get(rec, "ui_port") # None
  /\ \E c \in DOMAIN data \ {self} :
       HasUi(data[c]) /\ PyEq(Get(data[c], "ui_port"), Get(rec, "ui_port"))

\* another record than self that is the reverse proxy
ProxyClash(data, rec, self) ==
  IsProxy(rec) /\ \E c \in DOMAIN data \ {self} : IsProxy(data[c])

\* a UI field that is missing or that no reading of the rules accepts
UiFieldBad(r) ==
  /\ HasUi(r)
  /\ \/ Get(r, "ui_port")[1] \notin {"int", "bool"}
     \/ Num(Get(r, "ui_port")) < 1 \/ Num(Get(r, "ui_port")) > 65535
     \/ Get(r, "protocol") \notin {PyStr("http"), PyStr("https")}
     \/ Get(r, "icon") \in {None, PyStr("")}
     \/ Get(r, "dashy_tile_section") \in {None, PyStr("")}
     \/ Get(r, "dashy_tile_url_suffix") = None

\* the UI group of a record with has_ui, as section 3 of the specification
\* types it: ui_port is an integer, not a boolean
UiGroupOk(r) ==
  /\ Get(r, "ui_port")[1] = "int"
  /\ Get(r, "ui_port")[2] >= 1 /\ Get(r, "ui_port")[2] <= 65535
  /\ Get(r, "protocol") \in {PyStr("http"), PyStr("https")}
  /\ Get(r, "icon")[1] = "str" /\ Get(r, "icon")[2] # ""
  /\ Get(r, "dashy_tile_section")[1] = "str" /\ Get(r, "dashy_tile_section")[2] # ""
  /\ Get(r, "dashy_tile_url_suffix")[1] = "str"

RecordsViolate(data, id, rec) ==
  \/ PortClash(data, rec, id) \/ UiFieldBad(rec)
  \/ ProxyClash(data, rec, id) \/ ~Truthy(Get(rec, "name"))

Rejects(m, data) == m.errs # {} /\ m.data = data

PortMsg == "UI port is already in use by component. Ports must be unique."
ProxyMsg == "is already selected as a reverse proxy. Maximum one reverse proxy allowed."

(***************************************************************************)
(* C1                                                                      *)
(***************************************************************************)
C1_EveryViolationRejected ==
  /\ \A id \in MainIds, rec \in Recs :
       /\ (~FullMatch(id) \/ id \in DOMAIN components_data
             \/ RecordsViolate(components_data, id, rec))
            => Rejects(add_component_mem(components_data, id, rec), components_data)
       /\ (id \notin DOMAIN components_data \/ RecordsViolate(components_data, id, rec))
            => Rejects(update_component_mem(components_data, id, rec), components_data)
  /\ \A id \in MainIds :
       id \notin DOMAIN components_data
         => Rejects(delete_component_mem(components_data, id), components_data)

C1_FailedCallChangesNothing ==
  last'.res = "ValidationError" => UNCHANGED <<components_data, disk, tmp>>

\* C1: a Create, Update or Delete that breaks a rule (bad, duplicate or unknown
\* id, port conflict, missing or invalid UI field, second reverse proxy, empty
\* name) raises a validation error, and a call that raised one has left the
\* map, the backing document and the side file as they were.
C1_ValidationFailureLeavesNoTrace ==
  []C1_EveryViolationRejected /\ [][C1_FailedCallChangesNothing]_vars

\* an update of a stored record was refused for its empty name
C1_Witness ==
  /\ last.op = "update" /\ last.res = "ValidationError"
  /\ last.err.msg = "Component name is required."
  /\ last.id \in DOMAIN components_data
  /\ disk = Complete(json_dump(components_data))

(***************************************************************************)
(* C2                                                                      *)
(***************************************************************************)
Proxies(data) == {c \in DOMAIN data : IsProxy(data[c])}

\* rec passes every check that runs before the reverse-proxy check
PassesUntilProxy(data, rec, self) ==
  HasUi(rec) => (UiGroupOk(rec) /\ ~PortClash(data, rec, self))

\* C2: at most one record is the reverse proxy; a Create or Update that sets
\* is_reverse_proxy while another record holds it is refused and changes
\* nothing, and when nothing earlier in the order of checks is wrong the
\* error is the reverse-proxy one and names the holder.
C2_SingleReverseProxy ==
  /\ Cardinality(Proxies(components_data)) <= 1
  /\ \A id \in MainIds, rec \in Recs, h \in Proxies(components_data) :
       IsProxy(rec) =>
         /\ Rejects(add_component_mem(components_data, id, rec), components_data)
         /\ (FullMatch(id) /\ id \notin DOMAIN components_data
               /\ PassesUntilProxy(components_data, rec, NoEdit))
              => add_component_mem(components_data, id, rec).errs = {Err(ProxyMsg, h)}
         /\ h # id =>
              /\ Rejects(update_component_mem(components_data, id, rec), components_data)
              /\ (id \in DOMAIN components_data /\ PassesUntilProxy(components_data, rec, id))
                   => update_component_mem(components_data, id, rec).errs = {Err(ProxyMsg, h)}

\* a call was refused with the reverse-proxy error naming the stored proxy,
\* next to a second record that is not the proxy
C2_Witness ==
  /\ last.res = "ValidationError" /\ last.err.msg = ProxyMsg
  /\ Proxies(components_data) = {last.err.about}
  /\ Cardinality(DOMAIN components_data) = 2

(***************************************************************************)
(* C3                                                                      *)
(***************************************************************************)
\* C3: no two records with has_ui have the same ui_port, and an Update that
\* turns has_ui on is checked against every other record with has_ui: it is
\* refused, and changes nothing, when one of them has the port.
C3_UniqueUiPorts ==
  /\ \A c, d \in DOMAIN components_data :
       (c # d /\ HasUi(components_data[c]) /\ HasUi(components_data[d]))
         => ~PyEq(Get(components_data[c], "ui_port"), Get(components_data[d], "ui_port"))
  /\ \A id \in DOMAIN components_data, rec \in Recs :
       PortClash(components_data, rec, id)
         => /\ Rejects(update_component_mem(components_data, id, rec), components_data)
            /\ \A e \in update_component_mem(components_data, id, rec).errs :
                 /\ e.msg = PortMsg
                 /\ e.about # id /\ HasUi(components_data[e.about])
                 /\ PyEq(Get(components_data[e.about], "ui_port"), Get(rec, "ui_port"))

\* a record stored without a UI but carrying port 80 was refused the update
\* that turns its UI on, because the other record has port 80
C3_Witness ==
  /\ last.op = "update" /\ last.res = "ValidationError" /\ last.err.msg = PortMsg
  /\ last.id \in DOMAIN components_data
  /\ ~HasUi(components_data[last.id])
  /\ Get(components_data[last.id], "ui_port") = P80
  /\ last.err.about \in DOMAIN components_data
  /\ HasUi(components_data[last.err.about])
  /\ Get(components_data[last.err.about], "ui_port") = P80

(***************************************************************************)
(* C4                                                                      *)
(***************************************************************************)
\* C4: every stored record has a non-empty name, and with has_ui an integer
\* ui_port in 1..65535, a protocol http or https, a non-empty icon, a
\* non-empty dashy_tile_section and a dashy_tile_url_suffix that is present.
C4_RecordsWellFormed ==
  \A c \in DOMAIN components_data :
    /\ NameOk(components_data[c])
    /\ HasUi(components_data[c]) => UiGroupOk(components_data[c])

(***************************************************************************)
(* C5                                                                      *)
(***************************************************************************)
\* C5: a Create with a valid record that conflicts with nothing succeeds exactly
\* when the id is one or more lowercase letters, digits and hyphens and is not
\* in the store, so every id in the store is of that form.
C5_IdentifiersMatchPattern ==
  /\ \A id \in DOMAIN components_data : FullMatch(id)
  /\ (last.op = "add" /\ last.res = "ok") => FullMatch(last.id)
  /\ \A id \in Ids, rec \in IdRecs :
       (~RecordsViolate(components_data, id, rec)
          /\ FullMatch(id) /\ id \notin DOMAIN components_data)
         => add_component_mem(components_data, id, rec).errs = {}

(***************************************************************************)
(* C6                                                                      *)
(***************************************************************************)
C6_CreateOfStoredIdRefused ==
  \A id \in DOMAIN components_data, rec \in IdRecs :
    add_component_mem(components_data, id, rec)
      = [errs |-> {Err("already exists.", id)}, data |-> components_data]

C6_CreateOfStoredIdKeepsMap ==
  (last'.op = "add" /\ last'.id \in DOMAIN components_data)
    => /\ last'.res = "ValidationError"
       /\ last'.err = Err("already exists.", last'.id)
       /\ components_data' = components_data

\* C6: a Create whose id is in the store raises "already exists" whatever
\* record it carries, and the map, with the record under that id, is as it was.
C6_CreateNeverOverwrites ==
  []C6_CreateOfStoredIdRefused /\ [][C6_CreateOfStoredIdKeepsMap]_vars

\* a second Create of a stored id was refused
C6_Witness ==
  /\ last.op = "add" /\ last.res = "ValidationError"
  /\ last.err = Err("already exists.", last.id)
  /\ last.id \in DOMAIN components_data

(***************************************************************************)
(* C7                                                                      *)
(***************************************************************************)
\* rec is valid, keeps the port or the flag of the record under id, and what
\* it does not keep conflicts with no other record
ValidKeeping(data, id, rec) ==
  /\ KeepsPort(data[id], rec) \/ KeepsProxy(data[id], rec)
  /\ NameOk(rec)
  /\ HasUi(rec) => /\ UiGroupOk(rec)
                   /\ KeepsPort(data[id], rec) \/ ~PortClash(data, rec, id)
  /\ IsProxy(rec) => (KeepsProxy(data[id], rec) \/ ~ProxyClash(data, rec, id))

\* C7: an Update whose record keeps the ui port and/or the reverse-proxy flag
\* of the record it replaces, and is otherwise valid, succeeds; an Update
\* whose port or flag is held by another record is refused.
C7_SelfExclusion ==
  \A id \in DOMAIN components_data, rec \in Recs :
    /\ ValidKeeping(components_data, id, rec)
         => update_component_mem(components_data, id, rec)
              = [errs |-> {}, data |-> Put(components_data, id, rec)]
    /\ (PortClash(components_data, rec, id) \/ ProxyClash(components_data, rec, id))
         => Rejects(update_component_mem(components_data, id, rec), components_data)

\* an Update that kept port and flag succeeded next to another record with a UI
C7_Witness ==
  /\ last.op = "update" /\ last.res = "ok" /\ last.kept
  /\ HasUi(components_data[last.id]) /\ IsProxy(components_data[last.id])
  /\ \E c \in DOMAIN components_data \ {last.id} : HasUi(components_data[c])

(***************************************************************************)
(* C8                                                                      *)
(***************************************************************************)
\* the documents a Create, Update or Delete on the map data can write
NewDocs(data) ==
  { json_dump(Put(data, id, rec)) : id \in PersistIds, rec \in PersistRecs }
  \cup { json_dump(Del(data, id)) : id \in DOMAIN data }

C8_CanonicalNeverPartial == disk.kind \in {"absent", "json"} /\ last.res # "LoadError"

C8_OldOrNew ==
  /\ disk' # disk => /\ disk' \in { Complete(doc) : doc \in NewDocs(components_data) }
                     /\ up' => disk' = Complete(json_dump(components_data'))
  /\ last'.op = "load"
       => /\ up'
          /\ components_data' = IF disk.kind = "absent" THEN EmptyMap
                                ELSE json_load(disk.doc)

\* C8: with a failure or a crash possible at each step of _save_data, the
\* canonical path holds at every moment the complete previous document (or no
\* file, before the first write) or the complete new one, never a partial
\* one, and a start after a crash loads that document whatever the side file
\* holds.
C8_PersistCrashAtomic == []C8_CanonicalNeverPartial /\ [][C8_OldOrNew]_vars

\* the process died while writing the side file, and started again from the
\* previous document
C8_Witness ==
  /\ last.op = "load" /\ last.res = "ok"
  /\ tmp.kind = "partial"
  /\ disk.kind = "json"
  /\ components_data # EmptyMap

(***************************************************************************)
(* C9                                                                      *)
(***************************************************************************)
\* C9: a Create, Update or Delete that reports an error, a failure of
\* _save_data included, leaves the map as it was before the call.
C9_ErrorLeavesMapUnchanged ==
  [][last'.res \in {"ValidationError", "PersistError"}
       => components_data' = components_data]_vars

C11_LoadOutcome ==
  last'.op = "load" =>
    CASE disk.kind = "absent" ->
           up' /\ last'.res = "ok" /\ components_data' = EmptyMap
      [] disk.kind = "json" ->
           /\ up' /\ last'.res = "ok"
           /\ json_dump(components_data') = disk.doc
           /\ \A m \in LoadMaps : disk.doc = json_dump(m) => components_data' = m
      [] OTHER ->
           ~up' /\ last'.res = "LoadError" /\ components_data' = EmptyMap

C11_NoStoreAfterLoadError ==
  /\ last.res = "LoadError" => (~up /\ disk.kind \in {"partial", "array"})
  /\ ~up => components_data = EmptyMap

\* C11: constructing the store ends in one of three ways: with no file, an
\* empty map and no error; with a file that holds a JSON object, the map equal
\* to that object; with a file that does not parse or holds JSON that is not
\* an object, a load error and no store, so that the process has not started.
C11_LoadThreeOutcomes == []C11_NoStoreAfterLoadError /\ [][C11_LoadOutcome]_vars

\* the file held JSON that is not an object and the process did not start
C11_Witness ==
  /\ last.op = "load" /\ last.res = "LoadError"
  /\ disk = NotObject
  /\ ~up

(***************************************************************************)
(* C12                                                                     *)
(***************************************************************************)
C12_UpdateResult ==
  \A id \in MainIds, rec \in Recs :
    LET m == update_component_mem(components_data, id, rec)
    IN  /\ id \notin DOMAIN components_data => Rejects(m, components_data)
        /\ m.errs = {} =>
              /\ DOMAIN m.data = DOMAIN components_data
              /\ m.data[id] = rec
              /\ \A c \in DOMAIN components_data \ {id} : m.data[c] = components_data[c]

C12_UpdateStep ==
  last'.op = "update" =>
    IF last'.id \in DOMAIN components_data /\ last'.res = "ok"
      THEN /\ DOMAIN components_data' = DOMAIN components_data
           /\ components_data'[last'.id] \in Recs
           /\ \A c \in DOMAIN components_data \ {last'.id} :
                components_data'[c] = components_data[c]
      ELSE /\ last'.res = "ValidationError"
           /\ components_data' = components_data

\* C12: an Update that succeeds puts the given record under the id as it
\* is, with no field of the previous record left, keeps the set of ids and
\* every other record; an Update of an id that is not stored raises a
\* validation error and changes nothing.
C12_UpdateReplacesWholesale == []C12_UpdateResult /\ [][C12_UpdateStep]_vars

\* an Update succeeded with a record that has no UI fields, next to another
\* record that has them
C12_Witness ==
  /\ last.op = "update" /\ last.res = "ok"
  /\ DOMAIN components_data[last.id] = {"name", "has_ui", "is_reverse_proxy"}
  /\ \E c \in DOMAIN components_data \ {last.id} : HasUi(components_data[c])
  /\ disk = Complete(json_dump(components_data))

(***************************************************************************)
(* C13                                                                     *)
(***************************************************************************)
C13_DeleteResult ==
  \A id \in MainIds :
    LET m == delete_component_mem(components_data, id)
    IN  IF id \notin DOMAIN components_data
          THEN Rejects(m, components_data)
          ELSE /\ m.errs = {}
               /\ DOMAIN m.data = DOMAIN components_data \ {id}
               /\ \A c \in DOMAIN m.data : m.data[c] = components_data[c]
               /\ Get(m.data, id) = None
               /\ add_component_mem(m.data, id, components_data[id])
                    = [errs |-> {}, data |-> components_data]

C13_DeleteStep ==
  last'.op = "delete" =>
    IF last'.id \in DOMAIN components_data
      THEN /\ last'.res = "ok"
           /\ components_data' = [c \in DOMAIN components_data \ {last'.id} |->
                                    components_data[c]]
           /\ disk' = Complete(json_dump(components_data'))
      ELSE /\ last'.res = "ValidationError"
           /\ last'.err = Err("not found for deletion.", last'.id)
           /\ UNCHANGED <<components_data, disk, tmp>>

\* C13: a Delete of an id that is not stored raises a validation error and
\* leaves map and document as they were; a Delete of a stored id removes that
\* id and nothing else and writes the result, after which the id is absent
\* and a Create of the same id with the record that was deleted, its port and
\* reverse-proxy flag included, is accepted.
C13_DeleteRemovesExactlyOne == []C13_DeleteResult /\ [][C13_DeleteStep]_vars

\* a Delete succeeded and left another record; the deleted id can be created
\* again as a reverse proxy with a UI
C13_Witness ==
  /\ last.op = "delete" /\ last.res = "ok"
  /\ last.id \notin DOMAIN components_data
  /\ components_data # EmptyMap
  /\ disk = Complete(json_dump(components_data))
  /\ \E rec \in Recs :
       /\ HasUi(rec) /\ IsProxy(rec)
       /\ add_component_mem(components_data, last.id, rec).errs = {}

(***************************************************************************)
(* C14                                                                     *)
(***************************************************************************)
\* the invariants I1 to I5 of the specification on a whole map
StoreInvariants(data) ==
  /\ \A c \in DOMAIN data : FullMatch(c)
  /\ \A c \in DOMAIN data : NameOk(data[c])
  /\ \A c \in DOMAIN data : HasUi(data[c]) => UiGroupOk(data[c])
  /\ \A c, d \in DOMAIN data :
       (c # d /\ HasUi(data[c]) /\ HasUi(data[d]))
         => ~PyEq(Get(data[c], "ui_port"), Get(data[d], "ui_port"))
  /\ Cardinality(Proxies(data)) <= 1

\* C14: whatever JSON object the store was loaded from, after every Create,
\* Update or Delete that succeeded the whole map satisfies I1 to I5, the
\* records that came from the document and were not touched included.
C14_LoadedStoreValidAfterMutation ==
  (last.op \in {"add", "update", "delete"} /\ last.res = "ok")
    => StoreInvariants(components_data)

(***************************************************************************)
(* C15                                                                     *)
(***************************************************************************)
\* C15: the map changes only by a Create, Update or Delete that passed
\* validation: a caller that assigns into the mapping returned by
\* get_all_components, into a record returned by get_component, or into the
\* dict it passed to add_component or update_component, changes nothing
\* in the store.
C15_NoBypassOfValidation ==
  [][components_data' # components_data
       => (last'.op \in {"add", "update", "delete"} /\ last'.res = "ok")]_vars

(***************************************************************************)
(* C16                                                                     *)
(***************************************************************************)
\* C16: with add_component called from several request threads, no call
\* validates against a map that another call is about to change, so the map
\* never holds two reverse proxies or two records on one UI port, and no two
\* calls have the side file open for writing at the same time.
C16_CallsSerialized ==
  /\ Cardinality(Proxies(components_data)) <= 1
  /\ \A c, d \in DOMAIN components_data :
       (c # d /\ HasUi(components_data[c]) /\ HasUi(components_data[d]))
         => ~PyEq(Get(components_data[c], "ui_port"), Get(components_data[d], "ui_port"))
  /\ Cardinality({t \in Threads : calls[t].fd # "none"}) <= 1
  /\ disk.kind \in {"absent", "json"}

(***************************************************************************)
(* C17                                                                     *)
(***************************************************************************)
\* the error of the first rule, in the order of the specification, that a
\* Create (is_new) or Update of id with rec breaks on the map data; the
\* empty set when it breaks none
EarliestViolation(data, is_new, id, rec) ==
  LET self == IF is_new THEN NoEdit ELSE id
      port == Get(rec, "ui_port")
  IN  CASE id = <<>> -> {Err("Component ID cannot be empty.", <<>>)}
        [] ~FullMatch(id) ->
             {Err("Component ID can only contain lowercase letters, numbers, and hyphens.", <<>>)}
        [] is_new /\ id \in DOMAIN data -> {Err("already exists.", id)}
        [] ~is_new /\ id \notin DOMAIN data -> {Err("does not exist.", id)}
        [] PortClash(data, rec, self) ->
             { Err(PortMsg, c) : c \in { d \in DOMAIN data \ {self} :
                 HasUi(data[d]) /\ PyEq(Get(data[d], "ui_port"), port) } }
        [] HasUi(rec) /\ port = None ->
             {Err("UI Port is required if 'Has Web Interface' is selected.", <<>>)}
        [] HasUi(rec) /\ ~(port[1] = "int" /\ port[2] >= MinPort /\ port[2] <= MaxPort) ->
             {Err("UI Port must be an integer between 1 and 65535.", <<>>)}
        [] HasUi(rec) /\ Get(rec, "protocol") \in {None, PyStr("")} ->
             {Err("Protocol is required if 'Has Web Interface' is selected.", <<>>)}
        [] HasUi(rec) /\ Get(rec, "protocol") \notin {PyStr("http"), PyStr("https")} ->
             {Err("Protocol must be 'http' or 'https'.", <<>>)}
        [] HasUi(rec) /\ Get(rec, "icon") \in {None, PyStr("")} ->
             {Err("Icon is required if 'Has Web Interface' is selected.", <<>>)}
        [] HasUi(rec) /\ Get(rec, "dashy_tile_section") \in {None, PyStr("")} ->
             {Err("Dashy Section is required if 'Has Web Interface' is selected.", <<>>)}
        [] HasUi(rec) /\ Get(rec, "dashy_tile_url_suffix") = None ->
             {Err("Dashy URL Suffix is required if 'Has Web Interface' is selected.", <<>>)}
        [] ProxyClash(data, rec, self) ->
             { Err(ProxyMsg, c) : c \in Proxies(data) \ {self} }
        [] ~NameOk(rec) -> {Err("Component name is required.", <<>>)}
        [] OTHER -> {}

\* C17: a Create or Update that breaks several rules reports the error of
\* the earliest one in the order: id empty, id pattern, id already exists or
\* does not exist; with has_ui, port in use, then ui_port present, ui_port
\* range, protocol present, protocol value, icon, dashy_tile_section,
\* dashy_tile_url_suffix; reverse proxy already held; name.  Stated for the
\* id of the call that was just refused, on the map it left as it was, and
\* every record.
C17_EarliestViolationReported ==
  (last.op \in {"add", "update"} /\ last.res = "ValidationError") =>
    \A rec \in OrderRecs :
      /\ add_component_mem(components_data, last.id, rec).errs
           = EarliestViolation(components_data, TRUE, last.id, rec)
      /\ update_component_mem(components_data, last.id, rec).errs
           = EarliestViolation(components_data, FALSE, last.id, rec)

(***************************************************************************)
(* C18                                                                     *)
(***************************************************************************)
\* C18: right after every Create, Update or Delete that returned ok, the
\* file at the canonical path is a JSON document that parses to the whole map
\* in memory, whatever calls failed before it, in a check or in _save_data.
C18_DocumentEqualsMap ==
  (last.op \in {"add", "update", "delete"} /\ last.res = "ok")
    => /\ disk.kind = "json"
       /\ json_load(disk.doc) = components_data
       /\ disk.doc = json_dump(components_data)

\* a call returned ok after an earlier write had failed or the process had
\* died in one, with two records in the map
C18_Witness ==
  /\ last.op \in {"add", "update", "delete"} /\ last.res = "ok"
  /\ faults < MaxFaults
  /\ DOMAIN components_data = {IdA, IdNl}
  /\ disk = Complete(json_dump(components_data))

(***************************************************************************)
(* C19                                                                     *)
(***************************************************************************)
\* the map a file holds, empty when there is no document
DocMap(file) == IF file.kind = "json" THEN json_load(file.doc) ELSE EmptyMap

\* a write changes the document under the id of the call and nowhere else
C19_WriteHoldsOwnChangeOnly ==
  disk' # disk =>
    \A c \in (DOMAIN DocMap(disk') \cup DOMAIN DocMap(disk)) \ {last'.id} :
      /\ c \in DOMAIN DocMap(disk') /\ c \in DOMAIN DocMap(disk)
      /\ DocMap(disk')[c] = DocMap(disk)[c]

\* a Create is refused as "already exists" only for an id that a call which
\* returned ok has put into the document
C19_ExistsOnlyIfPersisted ==
  (last.op = "add" /\ last.err.msg = "already exists.")
    => last.id \in DOMAIN DocMap(disk)

\* C19: the backing document holds the effects of calls that returned ok
\* and of no others: after a call has reported a failure, of _save_data
\* included, no later call writes the change of the failed one, and the same
\* Create submitted again is not refused as "already exists".
C19_OnlySuccessfulEffects ==
  []C19_ExistsOnlyIfPersisted /\ [][C19_WriteHoldsOwnChangeOnly]_vars

=============================================================================
